---- MODULE Spec2Model ----
(***************************************************************************)
(* Model of the Nginx handling of the Docker Image Manager                 *)
(* (src/src/index.ts): the server-block parser and renderer, the           *)
(* reconciliation done by POST /start-compose and the backup / write /     *)
(* test / reload-or-restore sequence of POST /nginx/update-config-stream.  *)
(*                                                                         *)
(* Text is modelled as a sequence of tokens.  A token is a piece of text   *)
(* that no regular expression of the program can match into or across:     *)
(* keywords, values, ";", "{", "}", and whitespace ("\n", " ", and the two *)
(* indentations).  The text a sequence stands for is the concatenation of  *)
(* its tokens, so two sequences are byte-identical texts iff they are      *)
(* equal.                                                                  *)
(***************************************************************************)
EXTENDS Integers, Sequences, FiniteSets, TLC

\* ------------------------------------------------------------------------
\* Bounds of the model
\* ------------------------------------------------------------------------

\* Number of apply and start-compose requests a behaviour holds.
MaxRequests == 2

\* Number of pieces of a sample content of the managed file.
MaxBlocks == 2

\* ------------------------------------------------------------------------
\* Tokens
\* ------------------------------------------------------------------------

NL == "\n"
SP == " "
IND == "    "
IND2 == "        "

BASE_DOMAIN == "iiitkota.ac.in"

\* \s of the regular expressions, and what String.prototype.trim strips.
IsSpace(t) == t \in {NL, SP, IND, IND2}

\* Number of characters of a whitespace token.
SpaceChars(t) == IF t = IND THEN 4 ELSE IF t = IND2 THEN 8 ELSE 1

\* \d+ : the tokens that consist of digits only.
Digits == {"3000", "8080", "9090"}

Range(s) == {s[i] : i \in 1..Len(s)}

Min(S) == CHOOSE k \in S : \A m \in S : k <= m
Max(S) == CHOOSE k \in S : \A m \in S : k >= m

\* String.prototype.trim
Trim(s) ==
    LET C == {k \in 1..Len(s) : ~IsSpace(s[k])}
    IN  IF C = {} THEN << >> ELSE SubSeq(s, Min(C), Max(C))

\* Index of the first token at or after j that is not whitespace (Len(s)+1
\* when there is none).
RECURSIVE NextNonSpace(_, _)
NextNonSpace(s, j) ==
    IF j > Len(s) \/ ~IsSpace(s[j]) THEN j ELSE NextNonSpace(s, j + 1)

\* String.prototype.indexOf(pat): first index at which pat occurs in s, 0
\* when it does not occur.
IndexOf(s, pat) ==
    LET C == {i \in 1..(Len(s) - Len(pat) + 1) :
                 /\ Len(pat) > 0 => s[i] = pat[1]
                 /\ SubSeq(s, i, i + Len(pat) - 1) = pat}
    IN  IF C = {} THEN 0 ELSE Min(C)

\* String.prototype.replace(pat, by) with a string pattern: the first
\* occurrence only; s itself when pat does not occur.  (No token of the
\* model holds one of the replacement patterns $$, $&, $` or $', so by is
\* inserted literally.)
ReplaceFirst(s, pat, by) ==
    LET i == IndexOf(s, pat)
    IN  IF i = 0 THEN s
        ELSE SubSeq(s, 1, i - 1) \o by \o SubSeq(s, i + Len(pat), Len(s))

\* ------------------------------------------------------------------------
\* parseNginxConfig
\* ------------------------------------------------------------------------

\* /server\s*\{[\s\S]*?\}/ tried at position i: the index of the last token
\* of the match, 0 when there is no match at i.  The lazy [\s\S]*? stops at
\* the first "}" after the opening brace.
ServerMatchAt(s, i) ==
    IF s[i] # "server" THEN 0
    ELSE LET j == NextNonSpace(s, i + 1)
         IN  IF j > Len(s) \/ s[j] # "{" THEN 0
             ELSE LET C == {k \in (j + 1)..Len(s) : s[k] = "}"}
                  IN  IF C = {} THEN 0 ELSE Min(C)

\* content.match(serverRegex) || [] : the non-overlapping matches, left to
\* right, as <<first, last>> index pairs: the leftmost match from i on, then
\* the matches behind it.
RECURSIVE ServerSpans(_, _)
ServerSpans(s, i) ==
    LET M == {k \in i..Len(s) : s[k] = "server" /\ ServerMatchAt(s, k) # 0}
    IN  IF M = {} THEN << >>
        ELSE << <<Min(M), ServerMatchAt(s, Min(M))>> >>
                 \o ServerSpans(s, ServerMatchAt(s, Min(M)) + 1)

\* /kw\s+([^;]+);/ tried at position i of block b: <<TRUE, capture>> or
\* <<FALSE, <<>>>>.  \s+ takes the whitespace after the keyword, [^;]+ runs
\* to the next ";".  When the ";" follows the whitespace at once, \s+ gives
\* one character back to the capture if it has two or more.
DirectiveAt(b, kw, i) ==
    IF b[i] # kw \/ i = Len(b) \/ ~IsSpace(b[i + 1]) THEN <<FALSE, << >> >>
    ELSE LET j == NextNonSpace(b, i + 1)
             S == {k \in j..Len(b) : b[k] = ";"}
         IN  IF S = {} THEN <<FALSE, << >> >>
             ELSE IF Min(S) > j THEN <<TRUE, SubSeq(b, j, Min(S) - 1)>>
             ELSE IF j - i > 2 \/ SpaceChars(b[i + 1]) > 1 THEN <<TRUE, << >> >>
             ELSE <<FALSE, << >> >>

\* block.match(/kw\s+([^;]+);/) : the first match in b.
DirectiveMatch(b, kw) ==
    LET C == {i \in 1..Len(b) : DirectiveAt(b, kw, i)[1]}
    IN  IF C = {} THEN <<FALSE, << >> >> ELSE DirectiveAt(b, kw, Min(C))

\* The proxy_pass pattern without the host: any upstream with a port.
ProxyPassAt_AnyHost(b, i) ==
    IF b[i] # "proxy_pass" \/ i = Len(b) \/ ~IsSpace(b[i + 1]) THEN FALSE
    ELSE LET j == NextNonSpace(b, i + 1)
         IN  /\ j + 2 <= Len(b)
             /\ b[j + 1] \in Digits
             /\ b[j + 2] = ";"

\* /proxy_pass\s+http:\/\/localhost:(\d+);/ tried at position i of block b.
ProxyPassAt(b, i) ==
    IF b[i] # "proxy_pass" \/ i = Len(b) \/ ~IsSpace(b[i + 1]) THEN FALSE
    ELSE LET j == NextNonSpace(b, i + 1)
         IN  /\ j + 2 <= Len(b)
             /\ b[j] = "http://localhost:"
             /\ b[j + 1] \in Digits
             /\ b[j + 2] = ";"

\* block.match(proxyPassRegex) : <<TRUE, port>> of the first match in b.
ProxyPassMatch(b) ==
    LET C == {i \in 1..Len(b) : ProxyPassAt(b, i)}
    IN  IF C = {} THEN <<FALSE, "">>
        ELSE <<TRUE, b[NextNonSpace(b, Min(C) + 1) + 1]>>

\* The record with the block's closing brace added to raw_block.
ParseBlock_Closed(block) ==
    LET serverNameMatch == DirectiveMatch(block, "server_name")
        proxyPassMatch == ProxyPassMatch(block)
        clientMaxBodyMatch == DirectiveMatch(block, "client_max_body_size")
    IN  IF serverNameMatch[1] /\ proxyPassMatch[1]
        THEN << [server_name |-> Trim(serverNameMatch[2]),
                 proxy_pass_port |-> proxyPassMatch[2],
                 client_max_body_size |->
                     IF clientMaxBodyMatch[1] THEN Trim(clientMaxBodyMatch[2])
                     ELSE <<"N/A">>,
                 raw_block |-> block \o <<"}">>] >>
        ELSE << >>

\* The loop body of parseNginxConfig for one matched block: a one-element
\* list with the record, or the empty list when a directive is missing.
ParseBlock(block) ==
    LET serverNameMatch == DirectiveMatch(block, "server_name")
        proxyPassMatch == ProxyPassMatch(block)
        clientMaxBodyMatch == DirectiveMatch(block, "client_max_body_size")
    IN  IF serverNameMatch[1] /\ proxyPassMatch[1]
        THEN << [server_name |-> Trim(serverNameMatch[2]),
                 proxy_pass_port |-> proxyPassMatch[2],
                 client_max_body_size |->
                     IF clientMaxBodyMatch[1] THEN Trim(clientMaxBodyMatch[2])
                     ELSE <<"N/A">>,
                 raw_block |-> block] >>
        ELSE << >>

RECURSIVE ParseBlocks(_, _, _)
ParseBlocks(s, spans, n) ==
    IF n > Len(spans) THEN << >>
    ELSE ParseBlock(SubSeq(s, spans[n][1], spans[n][2])) \o ParseBlocks(s, spans, n + 1)

parseNginxConfig(content) == ParseBlocks(content, ServerSpans(content, 1), 1)

\* ------------------------------------------------------------------------
\* createNginxServerBlock
\* ------------------------------------------------------------------------

Line(text) == <<IND, text, ";", NL>>
Line2(text) == <<IND2, text, ";", NL>>

createNginxServerBlock(subdomain, port, clientMaxBodySize) ==
    <<NL, "# Service: ", subdomain, ".", BASE_DOMAIN, NL>>
    \o <<"server", SP, "{", NL>>
    \o Line("listen 443 ssl http2")
    \o Line("listen [::]:443 ssl http2")
    \o <<IND, "server_name", SP, subdomain, ".", BASE_DOMAIN, ";", NL>>
    \o <<NL>>
    \o Line("include snippets/ssl-cname-iiitkota.conf")
    \o <<IND, "client_max_body_size", SP, clientMaxBodySize, ";", NL>>
    \o <<NL>>
    \o Line("brotli on")
    \o Line("brotli_comp_level 6")
    \o Line("brotli_types text/plain text/css application/json ...")
    \o <<NL>>
    \o <<IND, "if ($http_upgrade = websocket)", SP, "{", NL>>
    \o Line2("return 403")
    \o <<IND, "}", NL>>
    \o <<NL>>
    \o <<IND, "location /", SP, "{", NL>>
    \o <<IND2, "proxy_pass", SP, "http://localhost:", port, ";", NL>>
    \o Line2("proxy_set_header Host $host")
    \o Line2("proxy_set_header X-Real-IP $remote_addr")
    \o Line2("proxy_set_header X-Forwarded-For $proxy_add_x_forwarded_for")
    \o Line2("proxy_set_header X-Forwarded-Proto $scheme")
    \o <<IND, "}", NL>>
    \o <<"}">>

\* ------------------------------------------------------------------------
\* Reconciliation of POST /start-compose (the Nginx part of the handler)
\* ------------------------------------------------------------------------

\* String.prototype.replace(/^\s*[\r\n]/gm, '') from position i on: at the
\* start of a line the greedy \s* runs over the whitespace that follows and
\* backs up to its last line break; the match is dropped and the scan goes on
\* behind it.  Elsewhere the rest of the line is kept, its line break
\* included, and the scan goes on at the start of the next line.
RECURSIVE StripBlankLines(_, _, _)
StripBlankLines(s, i, lineStart) ==
    IF i > Len(s) THEN << >>
    ELSE LET j == NextNonSpace(s, i)
             N == {k \in i..(j - 1) : s[k] = NL}
             L == {k \in i..Len(s) : s[k] = NL}
             n == IF L = {} THEN Len(s) ELSE Min(L)
         IN  IF lineStart /\ N # {}
             THEN StripBlankLines(s, Max(N) + 1, FALSE)
             ELSE SubSeq(s, i, n) \o StripBlankLines(s, n + 1, TRUE)

\* parsedServers.find(s => s.proxy_pass_port === port) : the list of the
\* records with that port, of which the caller takes the first.
RECURSIVE FindPort(_, _, _)
FindPort(servers, port, n) ==
    IF n > Len(servers) THEN << >>
    ELSE IF servers[n].proxy_pass_port = port THEN <<servers[n]>>
    ELSE FindPort(servers, port, n + 1)

\* The lookup that takes the first record whatever its port.
BlockToReplace_First(nginxContent, oldHostPort) ==
    LET servers == parseNginxConfig(nginxContent)
    IN  IF servers = << >> THEN << >> ELSE <<servers[1]>>

\* blockToReplace: looked up only when the saved config has a host port.
BlockToReplace(nginxContent, oldHostPort) ==
    IF oldHostPort = "" THEN << >>
    ELSE FindPort(parseNginxConfig(nginxContent), oldHostPort, 1)

\* finalConfig.hostPort: getDefaultConfig gives undefined, the request's
\* config overrides it.
FinalHostPort(userConfig) == IF userConfig.hasHostPort THEN userConfig.hostPort ELSE ""

\* userConfig.clientMaxBodySize || '10M'
ClientMaxSize(userConfig) ==
    IF userConfig.clientMaxBodySize = "" THEN "10M" ELSE userConfig.clientMaxBodySize

\* Case 1 with a block found: replace its raw_block by the new block.
UpdateBlock(nginxContent, blockToReplace, newBlock) ==
    ReplaceFirst(nginxContent, blockToReplace.raw_block, newBlock)

\* The new block put before the content instead of after it.
AddBlock_Front(nginxContent, newBlock) ==
    Trim(newBlock \o <<NL, NL>> \o Trim(nginxContent))

\* Case 1 with no block found: append the new block.
AddBlock(nginxContent, newBlock) ==
    Trim(Trim(nginxContent) \o <<NL, NL>> \o newBlock)

\* Case 2: remove the block and the blank lines.
RemoveBlock(nginxContent, blockToReplace) ==
    StripBlankLines(ReplaceFirst(nginxContent, blockToReplace.raw_block, << >>), 1, TRUE)

\* Lines 1203-1236: what the handler decides for the content it read.
\* touched: the handler looked at Nginx at all; promptNginxReload and
\* newNginxContent as in the code.
Reconcile(nginxContent, userConfig, oldHostPort) ==
    LET found == BlockToReplace(nginxContent, oldHostPort)
        hostPort == FinalHostPort(userConfig)
    IN  IF ~(userConfig.hasDomain \/ userConfig.hasHostPort)
        THEN [touched |-> FALSE, promptNginxReload |-> FALSE, newNginxContent |-> nginxContent]
        ELSE IF userConfig.hasDomain /\ userConfig.domain # "" /\ hostPort # ""
        THEN [touched |-> TRUE, promptNginxReload |-> TRUE,
              newNginxContent |->
                 LET newBlock == createNginxServerBlock(userConfig.domain, hostPort,
                                                        ClientMaxSize(userConfig))
                 IN  IF found # << >> THEN UpdateBlock(nginxContent, found[1], newBlock)
                     ELSE AddBlock(nginxContent, newBlock)]
        ELSE IF found # << >>
        THEN [touched |-> TRUE, promptNginxReload |-> TRUE,
              newNginxContent |-> RemoveBlock(nginxContent, found[1])]
        ELSE [touched |-> TRUE, promptNginxReload |-> FALSE, newNginxContent |-> nginxContent]

\* ------------------------------------------------------------------------
\* State
\* ------------------------------------------------------------------------

VARIABLES
    nginxFile,     \* the file at NGINX_CONFIG_PATH: [exists, text]
    backups,       \* the files of BACKUP_DIR: Date.now() of the name -> text
    now,           \* the last value Date.now() returned
    savedConfig,   \* hostPort of the service's config.json ("" when it has none)
    container,     \* whether the service's container exists
    apply,         \* the requests POST /nginx/update-config-stream, by slot
    compose,       \* the requests POST /start-compose, by slot
    started,       \* number of requests begun so far
    history,       \* kept for the properties only: the file at the start,
                   \* and which host port the reconciliations since have used
    info,          \* what getImageInfo last made of the managed file
    listing,       \* what GitHub and the Docker daemon list: [versions, localImages, containers]
    managed        \* the files of NGINX_MANAGED_DIR and the reload of NginxManager

vars == <<nginxFile, backups, now, savedConfig, container, apply, compose, started, history, info, listing, managed>>

\* Slots of requests in flight at the same time.
ApplyIds == {1, 2}
ComposeIds == {1}

\* Date.now() is read once per apply request.
MaxClock == MaxRequests

HostPorts == {"8080", "9090"}

\* JSON.parse(configData): the config object of a start-compose request.
\* hasDomain / hasHostPort say whether the key is present; clientMaxBodySize
\* is "" when the key is absent.
Config(hasDomain, domain, hasHostPort, hostPort, clientMaxBodySize) ==
    [hasDomain |-> hasDomain, domain |-> domain, hasHostPort |-> hasHostPort,
     hostPort |-> hostPort, clientMaxBodySize |-> clientMaxBodySize]

\* The config objects the requests carry: the UI sends the domain key also
\* when it is empty and the other keys only when they are not.
UserConfigs ==
    {Config(TRUE, "myapp", TRUE, p, "20M") : p \in HostPorts}
    \cup {Config(TRUE, "renamed", TRUE, p, "") : p \in HostPorts}
    \cup {Config(TRUE, "", TRUE, p, "") : p \in HostPorts}
    \cup {Config(TRUE, d, FALSE, "", "") : d \in {"myapp", ""}}
    \cup {Config(FALSE, "", FALSE, "", "")}

\* A hand-written server block, with its proxy_pass in a location block.
HandBlock(name, port) ==
    <<"server", SP, "{", NL,
      IND, "server_name", SP, name, ";", NL,
      NL,
      IND, "location /", SP, "{", NL,
      IND2, "proxy_pass", SP, "http://localhost:", port, ";", NL,
      IND, "}", NL,
      "}", NL>>

\* A hand-written file with two server blocks.
HandFile == HandBlock("a.iiitkota.ac.in", "8080") \o <<NL>> \o HandBlock("b.iiitkota.ac.in", "9090")

\* The file the handler of /start-compose writes when, from an empty file,
\* it adds a block for port 8080 and then one for port 9090.
RenderedFile ==
    Trim(createNginxServerBlock("myapp", "8080", "20M"))
    \o <<NL, NL>> \o createNginxServerBlock("renamed", "9090", "10M")

\* The bodies an apply request carries: the editor's text.
NewContents ==
    { <<"server", SP, "{", NL, IND, "server_name", SP, "x.iiitkota.ac.in", NL>>,
      HandBlock("c.iiitkota.ac.in", "3000") }

IdleApply ==
    [pc |-> "idle", newConfigContent |-> << >>, backupPath |-> 0,
     before |-> << >>, testExitCode |-> -1, reloadExitCode |-> -1,
     outcome |-> "none", ops |-> << >>, connected |-> TRUE, seen |-> << >>]

IdleCompose ==
    [pc |-> "idle", userConfig |-> Config(FALSE, "", FALSE, "", ""),
     isRecreating |-> FALSE, oldHostPort |-> "",
     before |-> [exists |-> FALSE, text |-> << >>],
     promptReload |-> FALSE, status |-> 0, ops |-> << >>, exitCode |-> -1]

\* Before getImageInfo has run.
NoInfo == [returned |-> FALSE, nginxConfig |-> << >>, images |-> << >>]

\* Nothing published and nothing pulled or created.
NoListing == [versions |-> << >>, localImages |-> << >>, containers |-> << >>]

\* The subdomains NginxManager is called with.
Subdomains == {"myapp", "renamed"}

\* A file that is not there.
NoFile == [exists |-> FALSE, text |-> << >>]

\* No managed file yet and no reload under way.
NoManaged ==
    [files |-> [d \in Subdomains |-> NoFile], pc |-> "idle", success |-> FALSE, output |-> "none",
     call |-> [op |-> "none", subdomain |-> "", content |-> << >>]]

Init ==
    /\ nginxFile \in {[exists |-> FALSE, text |-> << >>],
                      [exists |-> TRUE, text |-> << >>],
                      [exists |-> TRUE, text |-> HandFile],
                      [exists |-> TRUE, text |-> RenderedFile]}
    /\ backups = << >>
    /\ now = 0
    /\ savedConfig = ""
    /\ container = FALSE
    /\ apply = [c \in ApplyIds |-> IdleApply]
    /\ compose = [r \in ComposeIds |-> IdleCompose]
    /\ started = 0
    /\ history = [initial |-> nginxFile, port |-> "none", domain |-> ""]
    /\ info = NoInfo
    /\ listing = NoListing
    /\ managed = NoManaged

\* The local state of the handlers that have returned is gone when the next
\* request begins.
ClearDone(slots, idle) ==
    [x \in DOMAIN slots |-> IF slots[x].pc = "done" THEN idle ELSE slots[x]]

\* A request takes the first free slot (the slots are names only).
FreeSlot(slots, x) ==
    /\ slots[x].pc \in {"idle", "done"}
    /\ \A y \in DOMAIN slots : slots[y].pc \in {"idle", "done"} => x <= y

\* No request is between its first and its last step.
Quiescent ==
    /\ \A c \in ApplyIds : apply[c].pc \in {"idle", "done"}
    /\ \A r \in ComposeIds : compose[r].pc \in {"idle", "done"}

\* ------------------------------------------------------------------------
\* POST /nginx/update-config-stream
\* ------------------------------------------------------------------------

\* writeFileSync(NGINX_CONFIG_PATH, text)
WriteNginx(text) == [exists |-> TRUE, text |-> text]

\* copyFileSync(NGINX_CONFIG_PATH, backupPath): the backup directory with
\* the file added (a file of that name is overwritten).
CopyToBackup(dir, backupPath, file) ==
    [t \in DOMAIN dir \cup {backupPath} |-> IF t = backupPath THEN file.text ELSE dir[t]]

\* The restore that puts back what the file held before any request.
RestoreFromBackup_Initial(dir, backupPath) == history.initial

\* The copy with its arguments in the order of the backup step: the managed
\* file is the source again and stays as it is.
RestoreFromBackup_Swapped(dir, backupPath) == nginxFile

\* copyFileSync(backupPath, NGINX_CONFIG_PATH)
RestoreFromBackup(dir, backupPath) == WriteNginx(dir[backupPath])

Finish(c, outcome) ==
    apply' = [apply EXCEPT ![c].pc = "done", ![c].outcome = outcome]

\* A handler that does not look whether the file is there.
MissingPath_Unchecked(file) == FALSE

\* Line 1255: !existsSync(NGINX_CONFIG_PATH)
MissingPath(file) == ~file.exists

\* Lines 1254-1262: the body is read, the path is checked, the backup name
\* is made from Date.now().
ApplyBegin(c, body) ==
    /\ FreeSlot(apply, c)
    /\ started < MaxRequests
    /\ started' = started + 1
    /\ compose' = ClearDone(compose, IdleCompose)
    /\ IF MissingPath(nginxFile)
       THEN /\ apply' = [ClearDone(apply, IdleApply) EXCEPT ![c] =
                   [IdleApply EXCEPT !.pc = "done", !.newConfigContent = body,
                                     !.outcome = "not_found"]]
            /\ UNCHANGED now
       ELSE \E t \in {now, now + 1} :
            /\ t <= MaxClock
            /\ now' = t
            /\ apply' = [ClearDone(apply, IdleApply) EXCEPT ![c] =
                   [IdleApply EXCEPT !.pc = "backup", !.newConfigContent = body,
                                     !.backupPath = t, !.before = nginxFile.text]]
    /\ UNCHANGED <<nginxFile, backups, savedConfig, container, history, info, listing, managed>>

\* A stream.write that rejects once the client has gone.
StreamWrite_Rejects(connected) == connected

\* await stream.write(...): whether the call resolves.  The write of the
\* streaming helper resolves whether or not the bytes could be delivered.
StreamWrite(connected) == TRUE

\* The steps the client has been told about, after step op.
Seen(c, op) == IF apply[c].connected THEN Append(apply[c].seen, op) ELSE apply[c].seen

\* The client of request c goes away while the request is under way.
ApplyDisconnect(c) ==
    /\ apply[c].pc \notin {"idle", "done"}
    /\ apply[c].connected
    /\ apply' = [apply EXCEPT ![c].connected = FALSE]
    /\ UNCHANGED <<nginxFile, backups, now, savedConfig, container, compose, started, history, info, listing, managed>>

\* The syntax test straight after the backup, without the write.
AfterBackup_Test(ok) == IF ok THEN "test" ELSE "done"

\* A failed backup copy that is swallowed: the handler goes on to the write.
AfterBackup_Continue(ok) == "write"

\* The copy of line 1263 returns and the handler goes on to the write; when
\* it throws, the catch of line 1298 ends the request.
AfterBackup(ok) == IF ok THEN "write" ELSE "done"

\* Lines 1262-1263: the backup copy.
ApplyBackup(c) ==
    /\ apply[c].pc = "backup"
    /\ IF StreamWrite(apply[c].connected)
       THEN \E ok \in BOOLEAN :
               /\ backups' = IF ok THEN CopyToBackup(backups, apply[c].backupPath, nginxFile)
                             ELSE backups
               /\ apply' = [apply EXCEPT
                      ![c].pc = AfterBackup(ok),
                      ![c].outcome = IF AfterBackup(ok) = "done" THEN "fatal" ELSE @,
                      ![c].ops = IF ok THEN Append(@, "backup") ELSE @,
                      ![c].seen = IF ok THEN Seen(c, "backup") ELSE @]
       ELSE Finish(c, "fatal") /\ UNCHANGED backups
    /\ UNCHANGED <<nginxFile, now, savedConfig, container, compose, started, history, info, listing, managed>>

\* Lines 1264-1268: the new configuration is written; a throw ends the
\* request.
ApplyWrite(c) ==
    /\ apply[c].pc = "write"
    /\ IF StreamWrite(apply[c].connected)
       THEN \E ok \in BOOLEAN :
               IF ok
               THEN /\ nginxFile' = WriteNginx(apply[c].newConfigContent)
                    /\ apply' = [apply EXCEPT ![c].pc = "test",
                                              ![c].ops = Append(@, "write"),
                                              ![c].seen = Seen(c, "write")]
               ELSE /\ Finish(c, "fatal")
                    /\ UNCHANGED nginxFile
       ELSE Finish(c, "fatal") /\ UNCHANGED nginxFile
    /\ UNCHANGED <<backups, now, savedConfig, container, compose, started, history, info, listing, managed>>

\* A failed syntax test after which nothing is copied back.
AfterTest_Skip(testExitCode) == IF testExitCode # 0 THEN "done" ELSE "reload"

\* The reload not gated by the syntax test.
AfterTest_Always(testExitCode) == "reload"

\* A handler that, the test passed, waits for something that never comes.
AfterTest_Waits(testExitCode) == IF testExitCode # 0 THEN "restore" ELSE "waiting"

\* What follows the exit of sudo nginx -t (lines 1279-1288): the next step
\* of the request.
AfterTest(testExitCode) == IF testExitCode # 0 THEN "restore" ELSE "reload"

\* Lines 1269-1274: sudo nginx -t runs and exits.
ApplyTest(c) ==
    /\ apply[c].pc = "test"
    /\ IF StreamWrite(apply[c].connected)
       THEN \E testExitCode \in {0, 1} :
               apply' = [apply EXCEPT ![c].pc = AfterTest(testExitCode),
                                      ![c].testExitCode = testExitCode,
                                      ![c].ops = Append(@, "test"),
                                      ![c].seen = Seen(c, "test")]
       ELSE Finish(c, "fatal")
    /\ UNCHANGED <<nginxFile, backups, now, savedConfig, container, compose, started, history, info, listing, managed>>

\* Lines 1280-1284: the backup is copied back.
ApplyRestore(c) ==
    /\ apply[c].pc = "restore"
    /\ IF StreamWrite(apply[c].connected)
       THEN /\ nginxFile' = RestoreFromBackup(backups, apply[c].backupPath)
            /\ apply' = [apply EXCEPT ![c].pc = "done", ![c].outcome = "rejected",
                                      ![c].ops = Append(@, "restore"),
                                      ![c].seen = Seen(c, "restore")]
       ELSE Finish(c, "fatal") /\ UNCHANGED nginxFile
    /\ UNCHANGED <<backups, now, savedConfig, container, compose, started, history, info, listing, managed>>

\* The outcome after sudo systemctl reload nginx has exited (line 1291).
AfterReload(reloadExitCode) == IF reloadExitCode # 0 THEN "reload_failed" ELSE "applied"

\* A failed reload handled like a failed test: the backup is copied back.
OnReloadFailure_Restore(file, dir, backupPath) == RestoreFromBackup(dir, backupPath)

\* Lines 1291-1294: the branch of a failed reload writes its messages and
\* leaves the file as it is.
OnReloadFailure(file, dir, backupPath) == file

\* Lines 1286-1296: sudo systemctl reload nginx runs and exits.
ApplyReload(c) ==
    /\ apply[c].pc = "reload"
    /\ IF StreamWrite(apply[c].connected)
       THEN \E reloadExitCode \in {0, 1} :
               /\ nginxFile' = IF reloadExitCode # 0
                               THEN OnReloadFailure(nginxFile, backups, apply[c].backupPath)
                               ELSE nginxFile
               /\ apply' = [apply EXCEPT ![c].pc = "done",
                                      ![c].reloadExitCode = reloadExitCode,
                                      ![c].outcome = AfterReload(reloadExitCode),
                                      ![c].ops = Append(@, "reload"),
                                      ![c].seen = Seen(c, "reload")]
       ELSE Finish(c, "fatal") /\ UNCHANGED nginxFile
    /\ UNCHANGED <<backups, now, savedConfig, container, compose, started, history, info, listing, managed>>

\* ------------------------------------------------------------------------
\* POST /save-config and POST /start-compose
\* ------------------------------------------------------------------------

\* Line 1131: config.json is overwritten with the config of the request.
SaveConfig(hostPort) ==
    /\ savedConfig # hostPort
    /\ savedConfig' = hostPort
    /\ UNCHANGED <<nginxFile, backups, now, container, apply, compose, started, history, info, listing, managed>>

\* The history after request r has reconciled the file: port stays the
\* host port as long as every reconciliation set a domain for that one host
\* port, which was also the saved one; it is "mixed" from then on.  domain
\* is the domain of the last reconciliation.
Reconciled(r) ==
    LET u == compose[r].userConfig
    IN  [history EXCEPT !.port =
            IF /\ u.domain # "" /\ u.hostPort # ""
               /\ compose[r].oldHostPort = u.hostPort
               /\ @ \in {"none", u.hostPort}
            THEN u.hostPort ELSE "mixed",
                        !.domain = u.domain]

\* Lines 1153-1179: the old config is read; docker compose down is spawned
\* when recreating, the container is inspected otherwise.
ComposeBegin(r, userConfig, isRecreating) ==
    /\ FreeSlot(compose, r)
    /\ started < MaxRequests
    /\ started' = started + 1
    /\ apply' = ClearDone(apply, IdleApply)
    /\ compose' = [ClearDone(compose, IdleCompose) EXCEPT ![r] =
           [IdleCompose EXCEPT !.pc = IF isRecreating THEN "down" ELSE "inspect",
                               !.userConfig = userConfig,
                               !.isRecreating = isRecreating,
                               !.oldHostPort = savedConfig]]
    /\ UNCHANGED <<nginxFile, backups, now, savedConfig, container, history, info, listing, managed>>

\* Lines 1175, 1186-1197: compose down has exited (its exit code is not
\* looked at); the compose file is written and docker compose up spawned.
ComposeDown(r) ==
    /\ compose[r].pc = "down"
    /\ container' = FALSE
    /\ compose' = [compose EXCEPT ![r].pc = "up",
                                  ![r].ops = @ \o <<"compose_down", "compose_yml">>]
    /\ UNCHANGED <<nginxFile, backups, now, savedConfig, apply, started, history, info, listing, managed>>

\* A start that goes on over an existing container.
AfterInspect_Proceed(exists) == "up"

\* Lines 1177-1183: the request is over when the inspect finds the
\* container, and goes on when it answers 404.
AfterInspect(exists) == IF exists THEN "done" ELSE "up"

\* Lines 1178-1197: the inspect has answered: 409 when the container
\* exists, else the compose file is written and docker compose up spawned.
ComposeInspect(r) ==
    /\ compose[r].pc = "inspect"
    /\ IF AfterInspect(container) = "done"
       THEN compose' = [compose EXCEPT ![r].pc = "done", ![r].status = 409]
       ELSE compose' = [compose EXCEPT ![r].pc = "up",
                                       ![r].ops = Append(@, "compose_yml")]
    /\ UNCHANGED <<nginxFile, backups, now, savedConfig, container, apply, started, history, info, listing, managed>>

\* Lines 1206-1209: the content the handler reconciles.
ReadNginx(file) == IF file.exists THEN file.text ELSE << >>

\* The write done whether or not the content changed.
CommitNginx_Always(file, rec) == WriteNginx(rec.newNginxContent)

\* Lines 1237-1239: the file after the handler's decision.
CommitNginx(file, rec) ==
    IF rec.promptNginxReload THEN WriteNginx(rec.newNginxContent) ELSE file

\* The operations of lines 1198-1239 on the way to result rec.
ComposeOps(rec) ==
    <<"compose_up">> \o (IF rec.touched THEN <<"nginx_read">> ELSE << >>)
                      \o (IF rec.promptNginxReload THEN <<"write">> ELSE << >>)

\* A handler that goes on whatever docker compose up exited with.
UpFailed_Ignored(exitCode) == FALSE

\* Line 1200: if (exitCode !== 0) throw
UpFailed(exitCode) == exitCode # 0

\* Lines 1198-1243: docker compose up has exited; on exit code 0 the Nginx
\* file is reconciled in one synchronous stretch.
ComposeUp(r) ==
    /\ compose[r].pc = "up"
    /\ \E exitCode \in {0, 1} :
          IF UpFailed(exitCode)
          THEN /\ compose' = [compose EXCEPT ![r].pc = "done", ![r].status = 500,
                                             ![r].exitCode = exitCode,
                                             ![r].ops = Append(@, "compose_up")]
               /\ UNCHANGED <<nginxFile, container, history>>
          ELSE \E rec \in {Reconcile(ReadNginx(nginxFile), compose[r].userConfig,
                                       compose[r].oldHostPort)} :
                   /\ container' = TRUE
                   /\ history' = IF rec.touched THEN Reconciled(r) ELSE history
                   /\ nginxFile' = CommitNginx(nginxFile, rec)
                   /\ compose' = [compose EXCEPT
                          ![r].pc = "done", ![r].status = 200,
                          ![r].exitCode = exitCode,
                          ![r].before = nginxFile,
                          ![r].promptReload = rec.promptNginxReload,
                          ![r].ops = @ \o ComposeOps(rec)]
    /\ UNCHANGED <<backups, now, savedConfig, apply, started, info, listing, managed>>

\* ------------------------------------------------------------------------
\* getImageInfo
\* ------------------------------------------------------------------------

\* A tag is the sequence of its characters.  The decimal digits, in the
\* order of their character codes.
DigitChars == <<"0", "1", "2", "3", "4", "5", "6", "7", "8", "9">>

\* /^\d{4}$/.test(tag)
IsYearTag(tag) == Len(tag) = Len(<<"d", "d", "d", "d">>) /\ \A k \in 1..Len(tag) : tag[k] \in Range(DigitChars)

CharCode(ch) == CHOOSE k \in 1..Len(DigitChars) : DigitChars[k] = ch

\* The order Array.prototype.sort puts two strings of digits in.
RECURSIVE StringLeq(_, _)
StringLeq(a, b) ==
    IF a = << >> THEN TRUE
    ELSE IF b = << >> THEN FALSE
    ELSE IF a[1] = b[1] THEN StringLeq(Tail(a), Tail(b))
    ELSE CharCode(a[1]) < CharCode(b[1])

\* tags.sort().pop() on a list that is not empty
SortPop(tags) == CHOOSE t \in Range(tags) : \A u \in Range(tags) : StringLeq(u, t)

RECURSIVE FlatTags(_)
FlatTags(versions) ==
    IF versions = << >> THEN << >>
    ELSE SelectSeq(versions[1], IsYearTag) \o FlatTags(Tail(versions))

\* Lines 265-269: the greatest four-digit tag of all versions, '' without one.
getLatestTag(versions) ==
    LET tags == FlatTags(versions)
    IN  IF Len(tags) = 0 THEN << >> ELSE SortPop(tags)

\* The package of the dashboard, and the repository of its image
\* (`ghcr.io/iiitkota/${pkg.name}`, line 315).
PkgName == "app"
imageBaseName == "ghcr.io/iiitkota/app"

\* tag.startsWith(`${imageBaseName}:`) for a repo tag [repo, tag]
OfPackage(repoTag) == repoTag.repo = imageBaseName

\* Array.prototype.find: the first element of the list that the callback,
\* given by its answers hits, accepts, as a list of one or none.
RECURSIVE Find(_, _, _)
Find(list, hits, n) ==
    IF n > Len(list) THEN << >>
    ELSE IF hits[n] THEN <<list[n]>>
    ELSE Find(list, hits, n + 1)

\* Line 343: the first listed image with a repo tag of the package.
LocalImage(localImages) ==
    LET Mine(img) == \E k \in 1..Len(img.RepoTags) : OfPackage(img.RepoTags[k])
    IN  Find(localImages, [n \in 1..Len(localImages) |-> Mine(localImages[n])], 1)

\* Lines 345-354: the greatest four-digit tag of the image, else its first tag.
LocalTag(localImage) ==
    LET allLocalRepoTags == SelectSeq(localImage.RepoTags, OfPackage)
        tagsOnly == [k \in 1..Len(allLocalRepoTags) |-> allLocalRepoTags[k].tag]
        numericLocalTags == SelectSeq(tagsOnly, IsYearTag)
    IN  IF Len(numericLocalTags) > 0 THEN SortPop(numericLocalTags)
        ELSE IF Len(allLocalRepoTags) > 0 THEN allLocalRepoTags[1].tag
        ELSE << >>

\* Line 362: the first listed container of that image or of the package's name.
ContainerOf(containers, localImage) ==
    LET Mine(c) == \/ (localImage # << >> /\ c.ImageID = localImage[1].Id)
                   \/ c.Name = PkgName
    IN  Find(containers, [n \in 1..Len(containers) |-> Mine(containers[n])], 1)

\* A container's state taken over as the status.
ContainerStatus_StateOnly(imageStatus, state) ==
    IF state = "running" THEN "running" ELSE "stopped"

\* Lines 366-370: the status of a package with a container.
ContainerStatus(imageStatus, state) ==
    IF state = "running"
    THEN IF imageStatus = "up_to_date" THEN "running" ELSE "running_outdated"
    ELSE IF imageStatus = "up_to_date" THEN "stopped" ELSE "stopped_outdated"

\* Lines 310-368: the entry of the package, none when it has no latest tag.
ImagesInfo(l) ==
    LET latestTag == getLatestTag(l.versions)
        localImage == LocalImage(l.localImages)
        localTag == IF localImage # << >> THEN LocalTag(localImage[1]) ELSE << >>
        imageStatus == IF localImage = << >> THEN "not_pulled"
                       ELSE IF localTag = latestTag THEN "up_to_date"
                       ELSE "update_available"
        found == ContainerOf(l.containers, localImage)
    IN  IF latestTag = << >> THEN << >>
        ELSE << [name |-> PkgName,
                 localTag |-> localTag,
                 remoteTag |-> latestTag,
                 containerName |-> IF found # << >> THEN found[1].Name ELSE "",
                 status |-> IF found # << >>
                            THEN ContainerStatus(imageStatus, found[1].State)
                            ELSE imageStatus] >>

\* Lines 289-400: the listings are fetched, the managed file is read and
\* parsed when it exists (nginxConfig stays the empty list when it does
\* not), and the entry of each package is made.
GetImageInfo ==
    /\ info' = [returned |-> TRUE,
                nginxConfig |-> IF nginxFile.exists THEN parseNginxConfig(nginxFile.text)
                                ELSE << >>,
                images |-> ImagesInfo(listing)]
    /\ UNCHANGED <<nginxFile, backups, now, savedConfig, container, apply, compose, started, history, listing, managed>>

\* Hand-written pieces of a managed file.
\* A server block without nested braces, with a body size.
FlatBlock(name, port, size) ==
    <<"server", SP, "{", NL,
      IND, "server_name", SP, name, ";", NL,
      IND, "client_max_body_size", SP, size, ";", NL,
      IND, "proxy_pass", SP, "http://localhost:", port, ";", NL,
      "}", NL>>

\* A server block without a server_name.
NoNameBlock(port) ==
    <<"server", SP, "{", NL,
      IND, "listen 80", ";", NL,
      IND, "proxy_pass", SP, "http://localhost:", port, ";", NL,
      "}", NL>>

\* A server block that serves files and proxies nowhere.
StaticBlock(name) ==
    <<"server", SP, "{", NL,
      IND, "server_name", SP, name, ";", NL,
      IND, "root /var/www", ";", NL,
      "}", NL>>

\* A server block that proxies to another host.
ElsewhereBlock(name, port) ==
    <<"server", SP, "{", NL,
      IND, "server_name", SP, name, ";", NL,
      IND, "proxy_pass", SP, "http://backend:", port, ";", NL,
      "}", NL>>

\* A server block whose own closing brace is missing.
OpenBlock(name, port) ==
    <<"server", SP, "{", NL,
      IND, "server_name", SP, name, ";", NL,
      IND, "location /", SP, "{", NL,
      IND2, "proxy_pass", SP, "http://localhost:", port, ";", NL,
      IND, "}", NL>>

SampleBlocks ==
    { HandBlock("a.iiitkota.ac.in", "8080"),
      FlatBlock("f.iiitkota.ac.in", "3000", "50M"),
      NoNameBlock("9090"),
      StaticBlock("s.iiitkota.ac.in"),
      ElsewhereBlock("e.iiitkota.ac.in", "8080"),
      OpenBlock("x.iiitkota.ac.in", "8080"),
      createNginxServerBlock("myapp", "8080", "20M"),
      <<"# managed by hand", NL>> }

\* The contents made of at most n sample pieces.
RECURSIVE SampleContents(_)
SampleContents(n) ==
    IF n = 0 THEN {<< >>}
    ELSE LET shorter == SampleContents(n - 1)
         IN  shorter \cup {c \o b : c \in shorter, b \in SampleBlocks}

\* The state at startup with one of the sample contents in the managed file,
\* or without the file.
InfoInit ==
    /\ nginxFile \in {[exists |-> FALSE, text |-> << >>]}
                     \cup {[exists |-> TRUE, text |-> c] : c \in SampleContents(MaxBlocks)}
    /\ backups = << >>
    /\ now = 0
    /\ savedConfig = ""
    /\ container = FALSE
    /\ apply = [c \in ApplyIds |-> IdleApply]
    /\ compose = [r \in ComposeIds |-> IdleCompose]
    /\ started = 0
    /\ history = [initial |-> nginxFile, port |-> "none", domain |-> ""]
    /\ info = NoInfo
    /\ listing = NoListing
    /\ managed = NoManaged

\* Tags, as the characters they consist of.
Y2024 == <<"2", "0", "2", "4">>
Y2025 == <<"2", "0", "2", "5">>
Y20251 == <<"2", "0", "2", "5", "1">>
Latest == <<"l", "a", "t", "e", "s", "t">>

\* What the package's versions on GitHub may carry as tags.
SampleVersions ==
    { << >>,
      << <<Latest>> >>,
      << <<Y2024>> >>,
      << <<Y2025, Latest>>, <<Y2024>> >>,
      << <<Y2024>>, <<Y2025>> >>,
      << <<Y20251>>, <<Y2024>> >> }

\* Local images: of the package with a year tag, with a year tag that is
\* not its first tag, without a year tag, and of another package.
SampleImages ==
    { [Id |-> "sha256:a", RepoTags |-> << [repo |-> imageBaseName, tag |-> Y2024] >>],
      [Id |-> "sha256:b", RepoTags |-> << [repo |-> imageBaseName, tag |-> Latest],
                                          [repo |-> imageBaseName, tag |-> Y2025] >>],
      [Id |-> "sha256:c", RepoTags |-> << [repo |-> "ghcr.io/iiitkota/other", tag |-> Y2025] >>],
      [Id |-> "sha256:d", RepoTags |-> << [repo |-> imageBaseName, tag |-> Latest] >>] }

SampleContainers ==
    [ImageID : {"sha256:a", "sha256:b", "sha256:c"},
     Name : {PkgName, "web"},
     State : {"running", "exited"}]

\* The lists of none, one or two elements of S.
UpToTwo(S) == {<< >>} \cup {<<a>> : a \in S} \cup {<<a, b>> : a \in S, b \in S}

\* The state at startup with one of the sample listings.
StatusInit ==
    /\ nginxFile = NoFile
    /\ backups = << >>
    /\ now = 0
    /\ savedConfig = ""
    /\ container = FALSE
    /\ apply = [c \in ApplyIds |-> IdleApply]
    /\ compose = [r \in ComposeIds |-> IdleCompose]
    /\ started = 0
    /\ history = [initial |-> nginxFile, port |-> "none", domain |-> ""]
    /\ info = NoInfo
    /\ listing \in [versions : SampleVersions,
                    localImages : UpToTwo(SampleImages),
                    containers : UpToTwo(SampleContainers)]
    /\ managed = NoManaged

\* ------------------------------------------------------------------------
\* NginxManager (nginx.ts)
\* ------------------------------------------------------------------------

\* Lines 14-35: the content of a managed per-domain file.
ManagedContent(fullDomain, port, clientMaxBodySize) ==
    <<NL, "# Managed by DockerManager", NL>>
    \o <<"server", SP, "{", NL>>
    \o Line("listen 443 ssl http2")
    \o Line("listen [::]:443 ssl http2")
    \o <<IND, "server_name", SP, fullDomain, ";", NL>>
    \o <<NL>>
    \o Line("include snippets/ssl-cname-iiitkota.conf")
    \o <<IND, "client_max_body_size", SP, clientMaxBodySize, ";", NL>>
    \o <<NL>>
    \o Line("brotli on")
    \o Line("brotli_comp_level 6")
    \o Line("brotli_types text/plain text/css application/json ...")
    \o <<NL>>
    \o <<IND, "location /", SP, "{", NL>>
    \o <<IND2, "proxy_pass", SP, "http://localhost:", port, ";", NL>>
    \o Line2("proxy_set_header Host $host")
    \o Line2("proxy_set_header X-Real-IP $remote_addr")
    \o Line2("proxy_set_header X-Forwarded-For $proxy_add_x_forwarded_for")
    \o Line2("proxy_set_header X-Forwarded-Proto $scheme")
    \o <<IND, "}", NL>>
    \o <<"}">>

\* The body sizes createConfig is called with; '10M' is its default.
BodySizes == {"10M", "50M"}

\* Lines 10-44: the file `${subdomain}.${BASE}.conf` of the managed
\* directory is written; a write that fails is thrown on and leaves the
\* file as it was.
CreateConfig(subdomain, port, clientMaxBodySize) ==
    /\ \E ok \in BOOLEAN :
          LET content == ManagedContent(<<subdomain, ".", BASE_DOMAIN>>, port, clientMaxBodySize)
          IN  managed' = [managed EXCEPT
                  !.files = IF ok THEN [@ EXCEPT ![subdomain] = [exists |-> TRUE, text |-> content]]
                            ELSE @,
                  !.call = IF ok THEN [op |-> "createConfig", subdomain |-> subdomain, content |-> content]
                           ELSE [op |-> "createConfig_threw", subdomain |-> subdomain, content |-> << >>]]
    /\ UNCHANGED <<nginxFile, backups, now, savedConfig, container, apply, compose, started, history, info, listing>>

\* An unlink that takes every file of the managed directory with it.
Unlink_All(files, subdomain) == [d \in DOMAIN files |-> NoFile]

\* Line 51: unlinkSync(filePath)
Unlink(files, subdomain) == [files EXCEPT ![subdomain] = NoFile]

\* Lines 46-56: the file of the subdomain is unlinked when it exists; an
\* unlink that fails is logged only.
RemoveConfig(subdomain) ==
    /\ \E ok \in BOOLEAN :
          managed' = [managed EXCEPT
              !.files = IF @[subdomain].exists /\ ok THEN Unlink(@, subdomain) ELSE @,
              !.call = [op |-> "removeConfig", subdomain |-> subdomain, content |-> << >>]]
    /\ UNCHANGED <<nginxFile, backups, now, savedConfig, container, apply, compose, started, history, info, listing>>

\* Line 60: reload() is called and sudo nginx -t spawned.
ReloadBegin ==
    /\ managed.pc = "idle"
    /\ managed' = [managed EXCEPT !.pc = "test", !.output = "none"]
    /\ UNCHANGED <<nginxFile, backups, now, savedConfig, container, apply, compose, started, history, info, listing>>

\* A failed test after which the file of the last createConfig is taken away.
OnTestFailure_Rollback(files, call) ==
    IF call.op = "createConfig" THEN [files EXCEPT ![call.subdomain] = NoFile] ELSE files

\* Lines 63-66: a failed test is returned as the result; the files stay.
OnTestFailure(files, call) == files

\* Lines 61-66: sudo nginx -t has exited.
ReloadTest ==
    /\ managed.pc = "test"
    /\ \E testExit \in {0, 1} :
          managed' = IF testExit # 0
                     THEN [managed EXCEPT !.pc = "idle", !.success = FALSE,
                                          !.output = "Config Test Failed",
                                          !.files = OnTestFailure(@, managed.call)]
                     ELSE [managed EXCEPT !.pc = "reload"]
    /\ UNCHANGED <<nginxFile, backups, now, savedConfig, container, apply, compose, started, history, info, listing>>

\* Lines 69-77: sudo systemctl reload nginx has exited.
ReloadRun ==
    /\ managed.pc = "reload"
    /\ \E reloadExit \in {0, 1} :
          managed' = [managed EXCEPT !.pc = "idle", !.success = (reloadExit = 0),
                                     !.output = IF reloadExit # 0 THEN "Reload Failed"
                                                ELSE "Nginx reloaded successfully"]
    /\ UNCHANGED <<nginxFile, backups, now, savedConfig, container, apply, compose, started, history, info, listing>>

\* ------------------------------------------------------------------------
\* Specifications
\* ------------------------------------------------------------------------

ApplyStep(c) ==
    \/ ApplyBackup(c)
    \/ ApplyWrite(c)
    \/ ApplyTest(c)
    \/ ApplyRestore(c)
    \/ ApplyReload(c)

ComposeStep(r) ==
    \/ ComposeDown(r)
    \/ ComposeInspect(r)
    \/ ComposeUp(r)

\* Requests overlap: the handlers interleave at their awaits.
ApplyNext ==
    \/ \E c \in ApplyIds, body \in NewContents : ApplyBegin(c, body)
    \/ \E c \in ApplyIds : ApplyStep(c)

ComposeNext ==
    \/ \E r \in ComposeIds, u \in UserConfigs, re \in BOOLEAN : ComposeBegin(r, u, re)
    \/ \E r \in ComposeIds : ComposeStep(r)
    \/ \E p \in HostPorts \cup {""} : SaveConfig(p)

Next == ApplyNext \/ ComposeNext

Spec == Init /\ [][Next]_vars

\* The apply requests alone, overlapping.
ApplySpec == Init /\ [][ApplyNext]_vars

\* The apply requests alone, one at a time: a request begins only when no
\* other is in flight.
ApplySerialNext ==
    \/ \E c \in ApplyIds, body \in NewContents : Quiescent /\ ApplyBegin(c, body)
    \/ \E c \in ApplyIds : ApplyStep(c)

ApplySerialSpec == Init /\ [][ApplySerialNext]_vars

\* The apply requests one at a time, with clients that may go away.  The
\* event loop resumes a handler whose await has settled, and the spawned
\* commands exit: every step of a request that can be taken is taken.
ApplyClientNext ==
    \/ \E c \in ApplyIds, body \in NewContents : Quiescent /\ ApplyBegin(c, body)
    \/ \E c \in ApplyIds : ApplyStep(c)
    \/ \E c \in ApplyIds : ApplyDisconnect(c)

ApplyClientSpec ==
    Init /\ [][ApplyClientNext]_vars /\ \A c \in ApplyIds : WF_vars(ApplyStep(c))

\* Overlapping apply requests whose handlers go on: an awaited write
\* resolves, and a spawned subprocess exits.  The handler never looks into
\* the body, so the requests all carry the same one.
ApplyFairNext ==
    \/ \E c \in ApplyIds : ApplyBegin(c, HandBlock("c.iiitkota.ac.in", "3000"))
    \/ \E c \in ApplyIds : ApplyStep(c)

ApplyFairSpec ==
    Init /\ [][ApplyFairNext]_vars /\ \A c \in ApplyIds : WF_vars(ApplyStep(c))

\* The start-compose and save-config requests alone.
ComposeSpec == Init /\ [][ComposeNext]_vars

\* getImageInfo alone, over the sample contents.
InfoNext == GetImageInfo

InfoSpec == InfoInit /\ [][InfoNext]_vars

\* getImageInfo alone, over the sample listings.
StatusSpec == StatusInit /\ [][InfoNext]_vars

\* The calls of NginxManager alone; createConfig and removeConfig may be
\* called while a reload awaits its subprocess.
ManagerNext ==
    \/ \E d \in Subdomains, p \in HostPorts, size \in BodySizes : CreateConfig(d, p, size)
    \/ \E d \in Subdomains : RemoveConfig(d)
    \/ ReloadBegin
    \/ ReloadTest
    \/ ReloadRun

ManagerSpec == Init /\ [][ManagerNext]_vars

\* ------------------------------------------------------------------------
\* Properties of the apply request
\* ------------------------------------------------------------------------


\* C1: an apply request that runs alone and whose syntax test exited
\* non-zero ends rejected, with the copy back from the backup as its last
\* operation, and leaves the managed file with the content it had before the
\* request, whatever content was submitted.
C1_RollbackRestoresPreState ==
    \A c \in ApplyIds :
        (apply[c].pc = "done" /\ apply[c].testExitCode > 0)
        => /\ apply[c].outcome = "rejected"
           /\ apply[c].ops = <<"backup", "write", "test", "restore">>
           /\ nginxFile = WriteNginx(apply[c].before)

\* A rejected request whose submitted content differed from the file.
C1_Witness ==
    \E c \in ApplyIds :
        /\ apply[c].pc = "done" /\ apply[c].outcome = "rejected"
        /\ apply[c].newConfigContent # apply[c].before

\* C2: an apply request writes the managed file only after its backup copy
\* has completed, the backup then holding the content from before the write;
\* a request whose backup copy failed has ended with no operation done (no
\* write, no syntax test, no reload) and the managed file as it was.
C2_NeverWriteWithoutBackup ==
    \A c \in ApplyIds :
        /\ "write" \in Range(apply[c].ops)
           => /\ apply[c].ops[1] = "backup"
              /\ apply[c].backupPath \in DOMAIN backups
              /\ backups[apply[c].backupPath] = apply[c].before
        /\ (apply[c].pc \notin {"idle", "backup"} /\ "backup" \notin Range(apply[c].ops)
            /\ apply[c].outcome # "not_found")
           => /\ apply[c].pc = "done" /\ apply[c].outcome = "fatal"
              /\ apply[c].ops = << >>
              /\ nginxFile = WriteNginx(apply[c].before)

\* A request whose backup copy failed, with a body that differs from the file.
C2_Witness ==
    \E c \in ApplyIds :
        /\ apply[c].pc = "done" /\ apply[c].outcome = "fatal"
        /\ apply[c].ops = << >>
        /\ apply[c].newConfigContent # apply[c].before

\* C4: an apply request whose syntax test exited zero and whose reload
\* exited non-zero ends as a reload failure, has copied nothing back from the
\* backup, and leaves the managed file with the submitted content.
C4_NoRestoreOnReloadFailure ==
    \A c \in ApplyIds :
        (apply[c].pc = "done" /\ apply[c].testExitCode = 0 /\ apply[c].reloadExitCode > 0)
        => /\ apply[c].outcome = "reload_failed"
           /\ apply[c].ops = <<"backup", "write", "test", "reload">>
           /\ nginxFile = WriteNginx(apply[c].newConfigContent)

\* A reload failure after a write that changed the file.
C4_Witness ==
    \E c \in ApplyIds :
        /\ apply[c].pc = "done" /\ apply[c].outcome = "reload_failed"
        /\ apply[c].newConfigContent # apply[c].before

\* ------------------------------------------------------------------------
\* Properties of the reconciliation
\* ------------------------------------------------------------------------

\* The operations of the apply sequence among ops.
PipelineOps(ops) ==
    SelectSeq(ops, LAMBDA o : o \in {"backup", "write", "test", "reload", "restore"})

\* C3 as claimed: a start-compose request that changed the content has
\* written the managed file after a backup and before a syntax test that a
\* reload or a restore followed.
C3_ThroughPipeline ==
    \A r \in ComposeIds :
        (compose[r].pc = "done" /\ compose[r].promptReload)
        => LET o == PipelineOps(compose[r].ops)
           IN  /\ Len(o) = 4
               /\ o[1] = "backup" /\ o[2] = "write" /\ o[3] = "test"
               /\ o[4] \in {"reload", "restore"}

\* C3 as amended: a start-compose request that changed the content has
\* written the managed file once and directly: no backup, no syntax test, no
\* reload and no restore, and no backup file exists; a request that did not
\* change the content has not written the file, which is as it was.
C3_WritesDirectly ==
    \A r \in ComposeIds :
        (compose[r].pc = "done" /\ compose[r].status = 200)
        => /\ compose[r].promptReload
              => /\ PipelineOps(compose[r].ops) = <<"write">>
                 /\ DOMAIN backups = {}
                 /\ nginxFile.exists
           /\ ~compose[r].promptReload
              => /\ PipelineOps(compose[r].ops) = << >>
                 /\ nginxFile = compose[r].before

\* A request that changed the content of the file.
C3_Witness ==
    \E r \in ComposeIds :
        /\ compose[r].pc = "done" /\ compose[r].promptReload
        /\ nginxFile.text # compose[r].before.text

\* The closing brace that balances the opening brace at j: the first brace
\* after j up to which as many braces close as open; 0 when there is none.
BalancedEnd(s, j) ==
    LET B == {k \in j..Len(s) : s[k] \in {"{", "}"}}
        E == {e \in B : 2 * Cardinality({k \in B : k <= e /\ s[k] = "}"})
                          = Cardinality({k \in B : k <= e})}
    IN  IF E = {} THEN 0 ELSE Min(E)

\* A whole server block tried at position i: the index of its last token, 0
\* when no block starts at i.
BalancedMatchAt(s, i) ==
    IF s[i] # "server" THEN 0
    ELSE LET j == NextNonSpace(s, i + 1)
         IN  IF j > Len(s) \/ s[j] # "{" THEN 0 ELSE BalancedEnd(s, j)

\* The server blocks of a text as <<first, last>> index pairs, each from the
\* server keyword to the brace that balances its opening brace.
RECURSIVE BalancedSpans(_, _)
BalancedSpans(s, i) ==
    LET M == {k \in i..Len(s) : s[k] = "server" /\ BalancedMatchAt(s, k) # 0}
    IN  IF M = {} THEN << >>
        ELSE << <<Min(M), BalancedMatchAt(s, Min(M))>> >>
                 \o BalancedSpans(s, BalancedMatchAt(s, Min(M)) + 1)

\* The port a whole block proxies to ("" when it has no proxy_pass to
\* localhost) and its server name.
PortOf(s, span) == ProxyPassMatch(SubSeq(s, span[1], span[2]))[2]
NameOf(s, span) == Trim(DirectiveMatch(SubSeq(s, span[1], span[2]), "server_name")[2])

\* The whole blocks of s that proxy to port.
BlocksForPort(s, port) ==
    SelectSeq(BalancedSpans(s, 1), LAMBDA span : PortOf(s, span) = port)

\* C5 as claimed: from an empty file, after reconciliations that all set a
\* domain for the same host port, the file holds exactly one server block
\* proxying to that port, named after the domain of the last one.
C5_RenameUpdates ==
    (/\ history.initial.exists /\ history.initial.text = << >>
     /\ history.port \in HostPorts)
    => LET found == BlocksForPort(nginxFile.text, history.port)
       IN  /\ Len(found) = 1
           /\ NameOf(nginxFile.text, found[1]) = <<history.domain, ".", BASE_DOMAIN>>

\* C6 as claimed: after a reconciliation of an empty file that set a domain
\* for a host port, parsing the file gives exactly one record, with that
\* server name, port and body size.
C6_RoundTripAdd ==
    \A r \in ComposeIds :
        LET u == compose[r].userConfig
        IN  (/\ compose[r].pc = "done" /\ compose[r].status = 200
             /\ compose[r].before.exists /\ compose[r].before.text = << >>
             /\ u.domain # "" /\ u.hostPort # "")
            => LET servers == parseNginxConfig(nginxFile.text)
               IN  /\ Len(servers) = 1
                   /\ servers[1].server_name = <<u.domain, ".", BASE_DOMAIN>>
                   /\ servers[1].proxy_pass_port = u.hostPort
                   /\ servers[1].client_max_body_size = <<ClientMaxSize(u)>>

\* A text without its whitespace.
NonSpace(s) == SelectSeq(s, LAMBDA t : ~IsSpace(t))

IsPrefix(p, s) == Len(p) <= Len(s) /\ SubSeq(s, 1, Len(p)) = p
IsSuffix(p, s) == Len(p) <= Len(s) /\ SubSeq(s, Len(s) - Len(p) + 1, Len(s)) = p

\* A file of exactly two server blocks, the first proxying to 8080 and the
\* second to 9090.
TwoBlocks(s) ==
    LET spans == BalancedSpans(s, 1)
    IN  /\ Len(spans) = 2
        /\ PortOf(s, spans[1]) = "8080"
        /\ PortOf(s, spans[2]) = "9090"

\* C7 as claimed: clearing the domain of the service on 8080 in a file with
\* blocks for 8080 and 9090 removes the 8080 block and nothing else: what is
\* left is the text around that block up to blank lines, the 9090 block is
\* byte-identical, and parsing the result gives one record.
C7_ClearRemovesOnlyThatBlock ==
    \A r \in ComposeIds :
        LET u == compose[r].userConfig
            T == compose[r].before.text
        IN  (/\ compose[r].pc = "done" /\ compose[r].status = 200
             /\ TwoBlocks(T)
             /\ u.hasDomain /\ u.domain = "" /\ compose[r].oldHostPort = "8080")
            => LET spans == BalancedSpans(T, 1)
                   pre == SubSeq(T, 1, spans[1][1] - 1)
                   post == SubSeq(T, spans[1][2] + 1, Len(T))
                   other == SubSeq(T, spans[2][1], spans[2][2])
               IN  /\ NonSpace(nginxFile.text) = NonSpace(pre \o post)
                   /\ IndexOf(nginxFile.text, other) # 0
                   /\ Len(parseNginxConfig(nginxFile.text)) = 1

\* C8 as claimed: setting a new domain for the service on 8080 in a file with
\* blocks for 8080 and 9090 changes only the span of the 8080 block: the text
\* before it and the text after it stay where they were, byte-identical.
C8_ReplacePreservesOthers ==
    \A r \in ComposeIds :
        LET u == compose[r].userConfig
            T == compose[r].before.text
        IN  (/\ compose[r].pc = "done" /\ compose[r].status = 200
             /\ TwoBlocks(T)
             /\ u.domain # "" /\ u.hostPort = "8080"
             /\ compose[r].oldHostPort = "8080")
            => LET spans == BalancedSpans(T, 1)
                   pre == SubSeq(T, 1, spans[1][1] - 1)
                   post == SubSeq(T, spans[1][2] + 1, Len(T))
               IN  /\ IsPrefix(pre, nginxFile.text)
                   /\ IsSuffix(post, nginxFile.text)
                   /\ Len(nginxFile.text) >= Len(pre) + Len(post)

\* C9 as claimed: each span the parser takes for a server block of the
\* managed file ends at the brace that balances the block's opening brace.
C9_SpansAreBalanced ==
    nginxFile.exists
    => ServerSpans(nginxFile.text, 1) = BalancedSpans(nginxFile.text, 1)

\* C10 as claimed: reconciling again with the domain, port and size of the
\* block a reconciliation has just written leaves the content byte-identical
\* and reports no change.
C10_IdempotentNoOp ==
    \A r \in ComposeIds :
        LET u == compose[r].userConfig
        IN  (/\ compose[r].pc = "done" /\ compose[r].status = 200
             /\ compose[r].promptReload
             /\ u.domain # "" /\ u.hostPort # "")
            => LET again == Reconcile(nginxFile.text, u, u.hostPort)
               IN  /\ again.newNginxContent = nginxFile.text
                   /\ parseNginxConfig(again.newNginxContent)
                          = parseNginxConfig(nginxFile.text)

\* ------------------------------------------------------------------------
\* Further properties of the apply request
\* ------------------------------------------------------------------------

\* How many times operation o occurs in ops.
Count(ops, o) == Len(SelectSeq(ops, LAMBDA x : x = o))

\* The place of the first o in ops, 0 when there is none.
FirstOf(ops, o) ==
    LET I == {i \in 1..Len(ops) : ops[i] = o} IN IF I = {} THEN 0 ELSE Min(I)

\* C11: in one apply request the syntax test runs at most once and only
\* after the write, the reload runs at most once and only after a syntax
\* test that exited zero; a request that has written and has ended has run
\* the test exactly once, and the reload exactly when the test exited zero.
C11_NoRetriesGatedReload ==
    \A c \in ApplyIds :
        LET o == apply[c].ops
        IN  /\ Count(o, "test") <= 1 /\ Count(o, "reload") <= 1
            /\ "test" \in Range(o) => 0 < FirstOf(o, "write") /\ FirstOf(o, "write") < FirstOf(o, "test")
            /\ "reload" \in Range(o)
               => /\ apply[c].testExitCode = 0
                  /\ FirstOf(o, "test") < FirstOf(o, "reload")
            /\ (apply[c].pc = "done" /\ "write" \in Range(o))
               => /\ Count(o, "test") = 1
                  /\ Count(o, "reload") = (IF apply[c].testExitCode = 0 THEN 1 ELSE 0)

\* A request that ended after a passed test and a successful reload, and one
\* that ended after a failed test, at the same time.
C11_Witness ==
    \E c, d \in ApplyIds :
        /\ apply[c].pc = "done" /\ apply[c].outcome = "applied"
        /\ apply[d].pc = "done" /\ apply[d].testExitCode > 0

\* The writes of the managed file among ops: the write of the new content
\* and the copy back from the backup.
Writes(ops) == Count(ops, "write") + Count(ops, "restore")

\* C12: an apply request writes the managed file at most twice; a request
\* that has ended after a syntax test that exited zero has written it exactly
\* once (the new content), and one that has ended after a syntax test that
\* exited non-zero exactly twice (the new content, then the copy back).
C12_WriteCount ==
    \A c \in ApplyIds :
        LET o == apply[c].ops
        IN  /\ Writes(o) <= 2 /\ Count(o, "write") <= 1
            /\ (apply[c].pc = "done" /\ apply[c].testExitCode = 0)
               => Writes(o) = 1 /\ Count(o, "write") = 1
            /\ (apply[c].pc = "done" /\ apply[c].testExitCode > 0)
               => /\ Writes(o) = 2
                  /\ 0 < FirstOf(o, "write") /\ FirstOf(o, "write") < FirstOf(o, "restore")

\* A request that has written once and one that has written twice.
C12_Witness ==
    \E c, d \in ApplyIds :
        /\ apply[c].pc = "done" /\ Writes(apply[c].ops) = 1 /\ apply[c].testExitCode = 0
        /\ apply[d].pc = "done" /\ Writes(apply[d].ops) = 2

\* C13 as claimed: two apply requests that have each made their backup have
\* made it under different names.
C13_BackupsNeverCollide ==
    \A c, d \in ApplyIds :
        (/\ c # d
         /\ "backup" \in Range(apply[c].ops)
         /\ "backup" \in Range(apply[d].ops))
        => apply[c].backupPath # apply[d].backupPath

\* ------------------------------------------------------------------------
\* Further properties of the reconciliation
\* ------------------------------------------------------------------------

\* C14: a start-compose request that clears the domain while no server block
\* of the file proxies to the service's saved host port reports no change,
\* does not write the managed file and leaves it as it was.
C14_NoOpReconciliation ==
    \A r \in ComposeIds :
        LET u == compose[r].userConfig
        IN  (/\ compose[r].pc = "done" /\ compose[r].status = 200
             /\ u.hasDomain /\ u.domain = ""
             /\ BlocksForPort(ReadNginx(compose[r].before), compose[r].oldHostPort) = << >>)
            => /\ ~compose[r].promptReload
               /\ "write" \notin Range(compose[r].ops)
               /\ nginxFile = compose[r].before
               /\ Reconcile(ReadNginx(compose[r].before), u, compose[r].oldHostPort).newNginxContent
                      = ReadNginx(compose[r].before)

\* A request that cleared the domain of a service with a saved host port, on
\* a file that has blocks but none for that port.
C14_Witness ==
    \E r \in ComposeIds :
        /\ compose[r].pc = "done" /\ compose[r].status = 200
        /\ compose[r].userConfig.hasDomain /\ compose[r].userConfig.domain = ""
        /\ compose[r].oldHostPort \in HostPorts
        /\ BalancedSpans(compose[r].before.text, 1) # << >>
        /\ BlocksForPort(compose[r].before.text, compose[r].oldHostPort) = << >>
        /\ nginxFile = compose[r].before

\* ------------------------------------------------------------------------
\* Properties of the parser
\* ------------------------------------------------------------------------

\* C15 as claimed: parsing a managed file gives a list, and the empty list
\* when the file is missing, empty or holds no complete server block.
C15_ParsingNeverFails ==
    info.returned
    => /\ DOMAIN info.nginxConfig = 1..Len(info.nginxConfig)
       /\ BalancedSpans(ReadNginx(nginxFile), 1) = << >> => info.nginxConfig = << >>

\* Value val stands in b after keyword kw and whitespace.
Follows(b, kw, val) ==
    \E i \in 1..Len(b) :
        /\ b[i] = kw
        /\ LET j == NextNonSpace(b, i + 1)
           IN  /\ j > i + 1 /\ Len(val) > 0
               /\ j + Len(val) - 1 <= Len(b)
               /\ SubSeq(b, j, j + Len(val) - 1) = val

\* C19: every record getImageInfo has parsed from the managed file has a
\* raw_block that is a contiguous piece of the file's content, and its server
\* name, its port and its body size (unless N/A) stand inside that piece
\* after their keywords.
C19_RawBlockIsSubstring ==
    info.returned
    => \A n \in 1..Len(info.nginxConfig) :
           LET rec == info.nginxConfig[n]
               b == rec.raw_block
           IN  /\ IndexOf(nginxFile.text, b) # 0
               /\ Follows(b, "server_name", rec.server_name)
               /\ Follows(b, "proxy_pass", <<"http://localhost:", rec.proxy_pass_port, ";">>)
               /\ \/ rec.client_max_body_size = <<"N/A">>
                  \/ Follows(b, "client_max_body_size", rec.client_max_body_size)

\* Two records parsed from one file, the second from further down, the first
\* with a body size.
C19_Witness ==
    /\ info.returned /\ Len(info.nginxConfig) = 2
    /\ IndexOf(nginxFile.text, info.nginxConfig[2].raw_block) > 1
    /\ info.nginxConfig[1].client_max_body_size = <<"50M">>
    /\ info.nginxConfig[1].raw_block # info.nginxConfig[2].raw_block

\* Block b holds keyword kw, whitespace, a value and a semicolon.
HasDirective(b, kw) ==
    \E i \in 1..Len(b) :
        /\ b[i] = kw /\ i + 2 <= Len(b) /\ IsSpace(b[i + 1])
        /\ \E k \in (i + 2)..Len(b) :
              /\ b[k] = ";"
              /\ \E m \in (i + 2)..(k - 1) : ~IsSpace(b[m])
              /\ \A m \in (i + 2)..(k - 1) : b[m] # ";"

\* Block b holds proxy_pass http://localhost:<digits>;
HasLocalProxy(b) ==
    \E p \in Digits : Follows(b, "proxy_pass", <<"http://localhost:", p, ";">>)

\* C20: the records getImageInfo has parsed are, in order, the matched server
\* blocks of the file that hold both a server_name directive and a
\* proxy_pass to localhost with a port; the other matched blocks give no
\* record; the body size of a record is N/A exactly when its block has no
\* client_max_body_size directive; the file is as it was.
C20_ParseSkip ==
    info.returned
    => LET text == nginxFile.text
           spans == ServerSpans(text, 1)
           keep == SelectSeq(spans, LAMBDA sp :
                       /\ HasDirective(SubSeq(text, sp[1], sp[2]), "server_name")
                       /\ HasLocalProxy(SubSeq(text, sp[1], sp[2])))
       IN  /\ Len(info.nginxConfig) = Len(keep)
           /\ \A n \in 1..Len(keep) :
                 /\ info.nginxConfig[n].raw_block = SubSeq(text, keep[n][1], keep[n][2])
                 /\ (info.nginxConfig[n].client_max_body_size = <<"N/A">>)
                    <=> ~HasDirective(info.nginxConfig[n].raw_block, "client_max_body_size")
           /\ nginxFile = history.initial

\* A file with a matched block that gave no record and one that gave a
\* record without a body size.
C20_Witness ==
    /\ info.returned /\ Len(info.nginxConfig) = 1
    /\ Len(ServerSpans(nginxFile.text, 1)) = 2
    /\ info.nginxConfig[1].client_max_body_size = <<"N/A">>
    /\ IndexOf(nginxFile.text, info.nginxConfig[1].raw_block) > 1

\* ------------------------------------------------------------------------
\* Properties of interleaved apply requests
\* ------------------------------------------------------------------------

\* C16: apply requests do not exclude each other: the restore of a request
\* puts back whatever its backup file holds at that moment, which is the
\* content of the managed file when the backup was taken, be it the content
\* another request had just written (the witness is such a state).
C16_RestoreCopiesBackupFile ==
    [][\A c \in ApplyIds :
          (apply[c].pc = "restore" /\ apply'[c].pc = "done")
          => nginxFile' = WriteNginx(backups[apply[c].backupPath])]_vars

\* One request has ended rejected and its restore has left the managed file
\* with the content the other request wrote and is still testing, which its
\* backup, taken under a name of its own after that write, had captured; the
\* content that preceded both requests is gone.
C16_Witness ==
    \E c, d \in ApplyIds :
        /\ c # d
        /\ apply[c].pc = "done" /\ apply[c].outcome = "rejected"
        /\ apply[d].pc = "test"
        /\ apply[c].backupPath # apply[d].backupPath
        /\ apply[c].before = history.initial.text
        /\ apply[d].before = history.initial.text
        /\ backups[apply[c].backupPath] = apply[d].newConfigContent
        /\ nginxFile.text = apply[d].newConfigContent
        /\ nginxFile.text # history.initial.text
        /\ apply[c].newConfigContent # apply[d].newConfigContent

\* C18: the steps of an apply request come in the order backup, write, test
\* and then one of reload (test exit zero) or restore (test exit non-zero):
\* what a request has done is always a beginning of one of these two
\* sequences, a step is under way only when the steps before it are done,
\* and a request that has tested ends with exactly four steps.
C18_StepOrder ==
    \A c \in ApplyIds :
        LET o == apply[c].ops
        IN  /\ \/ IsPrefix(o, <<"backup", "write", "test", "reload">>)
               \/ IsPrefix(o, <<"backup", "write", "test", "restore">>)
            /\ apply[c].pc = "write" => o = <<"backup">>
            /\ apply[c].pc = "test" => o = <<"backup", "write">>
            /\ apply[c].pc \in {"reload", "restore"} => o = <<"backup", "write", "test">>
            /\ apply[c].pc = "reload" => apply[c].testExitCode = 0
            /\ apply[c].pc = "restore" => apply[c].testExitCode > 0
            /\ (apply[c].pc = "done" /\ Len(o) >= 3)
               => /\ Len(o) = 4
                  /\ o[4] = (IF apply[c].testExitCode = 0 THEN "reload" ELSE "restore")

\* Two requests that have gone through the two sequences, one each.
C18_Witness ==
    \E c, d \in ApplyIds :
        /\ apply[c].ops = <<"backup", "write", "test", "reload">>
        /\ apply[d].ops = <<"backup", "write", "test", "restore">>

\* The outcomes of a request that has run to its end.
TerminalOutcomes == {"applied", "reload_failed", "rejected"}

TextOf(s, spans, n) == SubSeq(s, spans[n][1], spans[n][2])

Depth(s, n) ==
    Cardinality({k \in 1..n : s[k] = "{"}) - Cardinality({k \in 1..n : s[k] = "}"})

\* Every '{' of s has its '}' after it and the other way round.
Balanced(s) ==
    /\ \A n \in 1..Len(s) : Depth(s, n) >= 0
    /\ Depth(s, Len(s)) = 0

\* C25 as claimed: when the content the request read has balanced braces,
\* the content it writes after adding, replacing or removing a block has
\* balanced braces too.
C25_BalancePreserved ==
    \A r \in ComposeIds :
        (/\ compose[r].pc = "done" /\ compose[r].status = 200
         /\ compose[r].promptReload
         /\ Balanced(compose[r].before.text))
        => Balanced(nginxFile.text)

\* C26 as claimed: a request that sets a domain deletes no server block,
\* also when its config has no host port while the saved config has one:
\* every port a server block of the content read proxies to still has a
\* server block, or is the saved host port whose block the request replaces
\* with one for its own host port, and the blocks are no fewer than before.
C26_DomainNeverDeletes ==
    \A r \in ComposeIds :
        LET u == compose[r].userConfig
            T == ReadNginx(compose[r].before)
        IN  (/\ compose[r].pc = "done" /\ compose[r].status = 200
             /\ u.domain # "")
            => /\ Len(BalancedSpans(nginxFile.text, 1)) >= Len(BalancedSpans(T, 1))
               /\ \A p \in HostPorts :
                      (BlocksForPort(T, p) # << >> /\ BlocksForPort(nginxFile.text, p) = << >>)
                      => (p = compose[r].oldHostPort /\ u.hostPort # "")

\* C27: the start-compose handler reads and writes the Nginx file only
\* after docker compose up has exited with 0.  A step changes the file only
\* as the step of a request whose compose up has just exited with 0; the
\* read and the write come after the compose up among the request's
\* operations; and when compose up exits with another code the request
\* fails with 500, without a read or a write, and the file is as it was.
C27_NginxOnlyAfterUp ==
    [][/\ nginxFile' # nginxFile
          => \E r \in ComposeIds :
                 /\ compose[r].pc = "up" /\ compose'[r].pc = "done"
                 /\ compose'[r].exitCode = 0 /\ compose'[r].status = 200
       /\ \A r \in ComposeIds :
             (compose[r].pc = "up" /\ compose'[r].pc = "done")
             => LET ops == compose'[r].ops
                IN  /\ Count(ops, "compose_up") = 1
                    /\ \A n \in 1..Len(ops) :
                           ops[n] \in {"nginx_read", "write"} => FirstOf(ops, "compose_up") < n
                    /\ compose'[r].exitCode # 0
                       => /\ compose'[r].status = 500
                          /\ nginxFile' = nginxFile
                          /\ "nginx_read" \notin Range(ops)
                          /\ "write" \notin Range(ops)]_vars

\* A request whose compose up exited with another code than 0 is over, with
\* a block for its saved host port in the file that its cleared domain would
\* have had removed.
C27_Witness ==
    \E r \in ComposeIds :
        /\ compose[r].pc = "done" /\ compose[r].exitCode > 0
        /\ compose[r].userConfig.hasDomain /\ compose[r].userConfig.domain = ""
        /\ compose[r].oldHostPort # ""
        /\ parseNginxConfig(nginxFile.text) # << >>
        /\ FindPort(parseNginxConfig(nginxFile.text), compose[r].oldHostPort, 1) # << >>

\* C28: a start without recreate of a service whose container exists is
\* answered with 409: no compose file has been written, no compose command
\* run, and the Nginx file is as it was.
C28_ConflictTouchesNothing ==
    [][\A r \in ComposeIds :
          /\ (compose[r].pc = "inspect" /\ compose'[r] # compose[r] /\ container)
             => /\ compose'[r].pc = "done" /\ compose'[r].status = 409
                /\ compose'[r].ops = << >>
                /\ nginxFile' = nginxFile
                /\ container' = container
          /\ compose'[r].status = 409
             => /\ ~compose'[r].isRecreating
                /\ compose'[r].ops = << >>
                /\ compose'[r].exitCode = IdleCompose.exitCode]_vars

\* A request answered with 409 that set a domain and a host port the file
\* has no block for.
C28_Witness ==
    \E r \in ComposeIds :
        /\ compose[r].pc = "done" /\ compose[r].status = 409
        /\ compose[r].userConfig.domain # "" /\ compose[r].userConfig.hostPort # ""
        /\ nginxFile.exists
        /\ BlocksForPort(nginxFile.text, compose[r].userConfig.hostPort) = << >>

\* ------------------------------------------------------------------------
\* Termination of the apply request
\* ------------------------------------------------------------------------

\* The ways an apply request ends.
ApplyOutcomes == {"applied", "rejected", "reload_failed", "fatal", "not_found"}

\* The most steps a request takes: backup, write, test, and restore or reload.
MaxApplySteps == Len(<<"backup", "write", "test", "reload">>)

\* The outcome that the steps taken and the exit codes of request c stand for.
OutcomeOf(c) ==
    LET ops == apply[c].ops
    IN  IF ops = <<"backup", "write", "test", "reload">>
        THEN IF apply[c].reloadExitCode = 0 THEN {"applied"} ELSE {"reload_failed"}
        ELSE IF ops = <<"backup", "write", "test", "restore">>
        THEN {"rejected"}
        ELSE IF ops \in {<< >>, <<"backup">>}
        THEN {"fatal", "not_found"}
        ELSE {}

\* C23: with subprocesses that exit, every apply request that has begun
\* comes to its end, after at most four steps, and a request that is over
\* has exactly the one outcome its steps stand for: applied, rejected with
\* the backup copied back, reload failed, or given up with an error.
C23_EveryCallEnds ==
    /\ \A c \in ApplyIds :
          (apply[c].pc \notin {"idle", "done"}) ~> (apply[c].pc = "done")
    /\ [](\A c \in ApplyIds :
             /\ Len(apply[c].ops) <= MaxApplySteps
             /\ apply[c].pc = "done"
                => /\ apply[c].outcome \in ApplyOutcomes
                   /\ apply[c].outcome \in OutcomeOf(c)
                   /\ apply[c].outcome = "not_found" => apply[c].ops = << >>
                   /\ apply[c].outcome = "applied" => apply[c].testExitCode = 0
                   /\ apply[c].outcome = "rejected" => apply[c].testExitCode # 0)

\* Two requests under way together have both come to an end, one applied
\* and one rejected.
C23_Witness ==
    \E c, d \in ApplyIds :
        /\ apply[c].pc = "done" /\ apply[c].outcome = "applied"
        /\ apply[d].pc = "done" /\ apply[d].outcome = "rejected"

\* ------------------------------------------------------------------------
\* Properties of the status of a package
\* ------------------------------------------------------------------------

\* The four-digit tags of the package's versions on GitHub.
RemoteYearTags ==
    {t \in UNION {Range(listing.versions[n]) : n \in 1..Len(listing.versions)} : IsYearTag(t)}

\* The places of the package's images in the list of local images.
PackageImages ==
    {n \in 1..Len(listing.localImages) :
        \E rt \in Range(listing.localImages[n].RepoTags) : rt.repo = imageBaseName}

\* The local image's tag is the latest remote four-digit tag: the first
\* listed image of the package carries it and no greater four-digit tag.
LocalIsLatest ==
    /\ PackageImages # {}
    /\ RemoteYearTags # {}
    /\ LET img == listing.localImages[Min(PackageImages)]
           years == {rt.tag : rt \in {x \in Range(img.RepoTags) :
                                         x.repo = imageBaseName /\ IsYearTag(x.tag)}}
       IN  \E t \in years \cap RemoteYearTags :
               /\ \A u \in RemoteYearTags : StringLeq(u, t)
               /\ \A u \in years : StringLeq(u, t)

\* The places of the package's containers in the list of containers: those
\* of its name and those of its local image.
PackageContainers ==
    {n \in 1..Len(listing.containers) :
        \/ listing.containers[n].Name = PkgName
        \/ /\ PackageImages # {}
           /\ listing.containers[n].ImageID = listing.localImages[Min(PackageImages)].Id}

\* C24: the status getImageInfo reports for a package is 'running' (resp.
\* 'stopped') only when the package has a container that is running (resp.
\* is not) and the local image's tag is the latest remote four-digit tag;
\* with a container and any other image status it is 'running_outdated' or
\* 'stopped_outdated'; without a container it is 'not_pulled' without a
\* local image, 'up_to_date' when the tags are equal, 'update_available'
\* otherwise.
C24_StatusDerivation ==
    (info.returned /\ RemoteYearTags # {})
    => /\ Len(info.images) = 1
       /\ LET st == info.images[1].status
              hasContainer == PackageContainers # {}
              running == listing.containers[Min(PackageContainers)].State = "running"
          IN  /\ st = "running" => (hasContainer /\ running /\ LocalIsLatest)
              /\ st = "stopped" => (hasContainer /\ ~running /\ LocalIsLatest)
              /\ (hasContainer /\ LocalIsLatest) => st \in {"running", "stopped"}
              /\ (hasContainer /\ ~LocalIsLatest)
                 => st = IF running THEN "running_outdated" ELSE "stopped_outdated"
              /\ ~hasContainer
                 => st = IF PackageImages = {} THEN "not_pulled"
                         ELSE IF LocalIsLatest THEN "up_to_date"
                         ELSE "update_available"

\* A package reported as stopped: its image, listed second and tagged
\* 'latest' first, carries the latest year tag, and its container, listed
\* second under another name, has exited.
C24_Witness ==
    /\ info.returned /\ Len(info.images) = 1
    /\ info.images[1].status = "stopped"
    /\ Len(listing.localImages) = 2 /\ PackageImages = {2}
    /\ Len(listing.containers) = 2 /\ PackageContainers = {2}
    /\ info.images[1].containerName # PkgName

\* ------------------------------------------------------------------------
\* The apply request without the managed file
\* ------------------------------------------------------------------------

\* C29: an apply request made while the managed file does not exist is
\* over at once with the error that the path was not found: it makes no
\* backup, writes no file and runs neither the syntax test nor the reload.
C29_MissingFileDoesNothing ==
    [][\A c \in ApplyIds :
          /\ (apply'[c] # apply[c] /\ apply[c].pc \in {"idle", "done"}
                /\ apply'[c].pc # "idle" /\ ~nginxFile.exists)
             => /\ apply'[c].pc = "done" /\ apply'[c].outcome = "not_found"
                /\ apply'[c].ops = << >>
                /\ apply'[c].testExitCode = IdleApply.testExitCode
                /\ apply'[c].reloadExitCode = IdleApply.reloadExitCode
                /\ backups' = backups
                /\ nginxFile' = nginxFile
          /\ apply'[c].outcome = "not_found"
             => (apply'[c].pc = "done" /\ apply'[c].ops = << >> /\ ~nginxFile'.exists)]_vars

\* Two apply requests have been made without the file, and there is still
\* neither a file nor a backup.
C29_Witness ==
    /\ ~nginxFile.exists /\ backups = << >>
    /\ started = MaxRequests
    /\ \E c \in ApplyIds : apply[c].pc = "done" /\ apply[c].outcome = "not_found"
                           /\ apply[c].newConfigContent # << >>

\* ------------------------------------------------------------------------
\* Properties of NginxManager
\* ------------------------------------------------------------------------

\* C30: reload changes no per-domain file: no step of a reload writes or
\* removes one, so the file the last createConfig wrote is on disk as
\* written whatever the reloads after it returned, a failed test included.
\* removeConfig changes no file but the one of its subdomain, which it takes
\* away, and changes nothing when that file is not there.
C30_ReloadAndRemoveFrame ==
    [][/\ managed'.pc # managed.pc => managed'.files = managed.files
       /\ managed'.call.op = "createConfig"
          => managed'.files[managed'.call.subdomain]
                 = [exists |-> TRUE, text |-> managed'.call.content]
       /\ (managed'.pc = managed.pc /\ managed'.call.op = "removeConfig")
          => LET d == managed'.call.subdomain
             IN  /\ \A e \in Subdomains \ {d} : managed'.files[e] = managed.files[e]
                 /\ managed'.files[d] \in {NoFile, managed.files[d]}
                 /\ ~managed.files[d].exists => managed'.files = managed.files]_vars

\* After createConfig wrote the file of a subdomain, a reload has returned
\* a failed config test, and the file is there; the file of the other
\* subdomain is there too.
C30_Witness ==
    /\ managed.call.op = "createConfig"
    /\ managed.pc = "idle" /\ managed.output = "Config Test Failed" /\ ~managed.success
    /\ managed.files[managed.call.subdomain].text = managed.call.content
    /\ \A d \in Subdomains : managed.files[d].exists

====
